---- MODULE Spec2Model ----
(***************************************************************************)
(* A model of migrate_tool.py: the three Tk callbacks load_file, qc_check  *)
(* and migrate, the widgets they configure, and the directory tree that    *)
(* migrate builds next to the source file.                                 *)
(*                                                                         *)
(* Python strings that the code slices or inspects (the selected file      *)
(* name, the export extension, the version folder name, cell values) are   *)
(* sequences of one-character strings.  A path is a sequence of component  *)
(* names (TLA+ strings) relative to the directory of the selected file;    *)
(* all selectable files live in that one directory.                        *)
(***************************************************************************)
EXTENDS Integers, Sequences, FiniteSets, TLC

VARIABLES
    filepath,          \* the global filepath (chars); <<>> is ""
    file_label,        \* text of file_label (chars)
    qc_button,         \* state of qc_button: "normal" | "disabled"
    migrate_button,    \* state of migrate_button
    traffic_light,     \* bg of traffic_light
    export_type_var,   \* value of export_type_var (chars)
    dirs,              \* the directories that exist (set of paths)
    files,             \* the regular files that exist: path -> content
    run,               \* the migrate callback: its position and its locals
    hist,              \* history of the callbacks (not program state)
    faults             \* number of I/O errors the environment has raised

vars == <<filepath, file_label, qc_button, migrate_button, traffic_light,
          export_type_var, dirs, files, run, hist, faults>>

(***************************************************************************)
(* Bounds of the model.                                                    *)
(***************************************************************************)
MaxFolders == 3     \* version folders the runs may create before migrate is no longer started
MaxFaults == 1      \* I/O errors the environment raises in one behaviour
MaxExisting == 3    \* highest version number of a folder found when the tool starts
ScanFrom == 997     \* shortest of the long unbroken runs of folders v001..
MaxRows == 2        \* data rows of a delimited-text input
MaxCols == 2        \* cells of one row of a delimited-text input
MaxEntries == 2     \* objects of a JSON input
MaxNodes == 3       \* elements below the root of an XML input

(***************************************************************************)
(* Python str operations.                                                  *)
(***************************************************************************)
RECURSIVE Str(_)
Str(cs) == IF cs = <<>> THEN "" ELSE Head(cs) \o Str(Tail(cs))

LowerMap ==
    [c \in {"A","B","C","D","E","F","G","H","I","J","K","L","M",
            "N","O","P","Q","R","S","T","U","V","W","X","Y","Z"} |->
        CASE c = "A" -> "a" [] c = "B" -> "b" [] c = "C" -> "c" [] c = "D" -> "d"
          [] c = "E" -> "e" [] c = "F" -> "f" [] c = "G" -> "g" [] c = "H" -> "h"
          [] c = "I" -> "i" [] c = "J" -> "j" [] c = "K" -> "k" [] c = "L" -> "l"
          [] c = "M" -> "m" [] c = "N" -> "n" [] c = "O" -> "o" [] c = "P" -> "p"
          [] c = "Q" -> "q" [] c = "R" -> "r" [] c = "S" -> "s" [] c = "T" -> "t"
          [] c = "U" -> "u" [] c = "V" -> "v" [] c = "W" -> "w" [] c = "X" -> "x"
          [] c = "Y" -> "y" [] c = "Z" -> "z"]

lower(s) == [i \in 1..Len(s) |-> IF s[i] \in DOMAIN LowerMap THEN LowerMap[s[i]] ELSE s[i]]

endswith(s, suffix) ==
    /\ Len(s) >= Len(suffix)
    /\ SubSeq(s, Len(s) - Len(suffix) + 1, Len(s)) = suffix

\* os.path.splitext: split at the last dot, unless that dot only leads the name
splitext(name) ==
    LET dots == {i \in 1..Len(name) : name[i] = "."}
        last == IF dots = {} THEN 0 ELSE CHOOSE i \in dots : \A j \in dots : j <= i
        leading == \A j \in 1..(last - 1) : name[j] = "."
    IN  IF last = 0 \/ leading
        THEN <<name, <<>>>>
        ELSE <<SubSeq(name, 1, last - 1), SubSeq(name, last, Len(name))>>

DigitChars == <<"0", "1", "2", "3", "4", "5", "6", "7", "8", "9">>

DigitValue(c) == CHOOSE d \in 0..9 : DigitChars[d + 1] = c

\* int(s) for a string of decimal digits
RECURSIVE int(_)
int(s) == IF s = <<>> THEN 0 ELSE 10 * int(SubSeq(s, 1, Len(s) - 1)) + DigitValue(s[Len(s)])

\* str(n) for n >= 0
RECURSIVE str(_)
str(n) == IF n < 10 THEN <<DigitChars[n + 1]>> ELSE str(n \div 10) \o <<DigitChars[(n % 10) + 1]>>

\* zfill left out: the number is not padded
zfill_none(s, width) == s

\* a fixed-width field: the number is padded and cut to the width
zfill_clip(s, width) ==
    SubSeq([i \in 1..(width - Len(s)) |-> "0"] \o s, 1, width)

RECURSIVE zfill(_, _)
zfill(s, width) == IF Len(s) >= width THEN s ELSE zfill(<<"0">> \o s, width)

(***************************************************************************)
(* Values and their repr().  A value is [t, v]: t is "str", "int" or       *)
(* "none"; v holds the characters of a str or the digits of an int.        *)
(***************************************************************************)
StrVal(cs) == [t |-> "str", v |-> cs]
IntVal(cs) == [t |-> "int", v |-> cs]
NoneVal == [t |-> "none", v |-> <<>>]

Chars(s) == {s[i] : i \in 1..Len(s)}

RECURSIVE Flatten(_)
Flatten(ss) == IF ss = <<>> THEN <<>> ELSE Head(ss) \o Flatten(Tail(ss))

\* repr of a str: single quotes, unless it holds ' and no "; backslash and the
\* chosen quote are escaped
repr_str(cs) ==
    LET q == IF "'" \in Chars(cs) /\ "\"" \notin Chars(cs) THEN "\"" ELSE "'"
        esc(c) == IF c = "\\" \/ c = q THEN <<"\\", c>> ELSE <<c>>
    IN  <<q>> \o Flatten([i \in 1..Len(cs) |-> esc(cs[i])]) \o <<q>>

repr(value) ==
    CASE value.t = "str" -> repr_str(value.v)
      [] value.t = "int" -> value.v
      [] value.t = "none" -> <<"N", "o", "n", "e">>

\* the f-string of lines 153, 163, 175 and 188, kept as its two joined lists
insert_statement(columns, values) ==
    [columns |-> columns, values |-> [i \in 1..Len(values) |-> repr(values[i])]]

(***************************************************************************)
(* The file system.                                                        *)
(***************************************************************************)
SourceDir == <<>>                      \* os.path.dirname(filepath)

os_path_join(path, name) == Append(path, name)

os_path_exists(d, f, path) == path \in d \/ path \in DOMAIN f

Prefixes(path) == {SubSeq(path, 1, n) : n \in 1..Len(path)}

IsUnder(path, dir) == Len(path) > Len(dir) /\ SubSeq(path, 1, Len(dir)) = dir

\* os.makedirs(path, exist_ok=True) raises when path or an ancestor is a regular file
makedirs_raises(f, path) == Prefixes(path) \cap DOMAIN f # {}

makedirs(d, path) == d \cup Prefixes(path)

\* open(path, "w") followed by the writes: creates or truncates
write_file(f, path, content) ==
    [p \in DOMAIN f \cup {path} |-> IF p = path THEN content ELSE f[p]]

\* shutil.move in place of shutil.copy: the source is gone afterwards
shutil_move(f, src, dst) ==
    [p \in (DOMAIN f \cup {dst}) \ {src} |-> IF p = dst THEN f[src] ELSE f[p]]

\* shutil.copy(src, dst)
shutil_copy(f, src, dst) == write_file(f, dst, f[src])

(***************************************************************************)
(* The four converters.  Each returns the files after the call and the     *)
(* exception the call raised ("" when it returned).                        *)
(***************************************************************************)
Output(lines) == [syntax |-> "sql", doc |-> lines]

migrate_csv(f, path, new_file_path) ==
    LET rows == f[path].doc                      \* list(reader): rows of str cells
        opened == write_file(f, new_file_path, Output(<<>>))   \* open(new_file_path, "w")
    IN  IF rows = <<>>
        THEN [files |-> opened, error |-> "IndexError"]        \* rows[0]
        ELSE [files |-> write_file(f, new_file_path,
                  Output([i \in 1..(Len(rows) - 1) |-> insert_statement(rows[1],
                      [j \in 1..Len(rows[i + 1]) |-> StrVal(rows[i + 1][j])])])),
              error |-> ""]

\* pd.read_excel gives [columns, rows]; ', '.join(columns) raises on a non-str label
migrate_excel(f, path, new_file_path) ==
    LET df == f[path].doc
        opened == write_file(f, new_file_path, Output(<<>>))
        labels == [i \in 1..Len(df.columns) |-> df.columns[i].v]
    IN  IF f[path].syntax # "xlsx"
        THEN [files |-> f, error |-> "ValueError"]             \* read_excel raises
        ELSE IF df.rows # <<>> /\ \E i \in 1..Len(df.columns) : df.columns[i].t # "str"
        THEN [files |-> opened, error |-> "TypeError"]
        ELSE [files |-> write_file(f, new_file_path,
                  Output([i \in 1..Len(df.rows) |-> insert_statement(labels, df.rows[i])])),
              error |-> ""]

\* one schema for the file: the keys of the first object are the columns of
\* every statement, a missing key is None
json_lines_first_keys(data, acc) ==
    LET keys == [i \in 1..Len(data[1].items) |-> data[1].items[i].k]
        get(entry, k) ==
            IF \E j \in 1..Len(entry.items) : entry.items[j].k = k
            THEN entry.items[CHOOSE j \in 1..Len(entry.items) : entry.items[j].k = k].v
            ELSE NoneVal
    IN  [lines |-> acc \o [n \in 1..Len(data) |->
                     insert_statement(keys, [i \in 1..Len(keys) |-> get(data[n], keys[i])])],
         error |-> ""]

\* json.load gives a list of entries; an entry is [t, v, items], items being the
\* (key, value) pairs of an object in key order.  entry.keys() raises on a scalar.
RECURSIVE json_lines(_, _)
json_lines(data, acc) ==
    IF data = <<>> THEN [lines |-> acc, error |-> ""]
    ELSE LET entry == Head(data)
             keys == [i \in 1..Len(entry.items) |-> entry.items[i].k]
             values == [i \in 1..Len(entry.items) |-> entry.items[i].v]
         IN  IF entry.t # "object"
             THEN [lines |-> acc, error |-> "AttributeError"]
             ELSE json_lines(Tail(data), Append(acc, insert_statement(keys, values)))

migrate_json(f, path, new_file_path) ==
    LET out == json_lines(f[path].doc, <<>>)
    IN  IF f[path].syntax # "json"
        THEN [files |-> f, error |-> "JSONDecodeError"]        \* json.load raises
        ELSE [files |-> write_file(f, new_file_path, Output(out.lines)),
              error |-> out.error]

\* findall("*") in place of findall(".//*"): the children only
findall_children(element) == element.children

\* An element is [tag, text, children]; descendants in document order
RECURSIVE findall_all(_)
findall_all(element) ==
    Flatten([i \in 1..Len(element.children) |->
                <<element.children[i]>> \o findall_all(element.children[i])])

IsItem(element) == element.tag = <<"i", "t", "e", "m">>

findall_item(root) == SelectSeq(findall_all(root), IsItem)

xml_statement(item) ==
    LET fields == findall_all(item)
        keys == [i \in 1..Len(fields) |-> fields[i].tag]
        values == [i \in 1..Len(fields) |-> fields[i].text]
    IN  insert_statement(keys, values)

migrate_xml(f, path, new_file_path) ==
    LET items == findall_item(f[path].doc)
    IN  IF f[path].syntax # "xml"
        THEN [files |-> f, error |-> "ParseError"]             \* ET.parse raises
        ELSE [files |-> write_file(f, new_file_path,
                  Output([i \in 1..Len(items) |-> xml_statement(items[i])])),
              error |-> ""]

(***************************************************************************)
(* The files of the source directory that the dialog can select.           *)
(***************************************************************************)
A_CSV == <<"a", ".", "c", "s", "v">>
E_CSV == <<"E", ".", "C", "S", "V">>
B_JSON == <<"b", ".", "j", "s", "o", "n">>
C_XML == <<"c", ".", "x", "m", "l">>
D_XLSX == <<"d", ".", "x", "l", "s", "x">>
N_TXT == <<"n", ".", "t", "x", "t">>

Leaf(tag, text) == [tag |-> tag, text |-> text, children |-> <<>>]

SourceContent(name) ==
    CASE name = A_CSV ->        \* id,name / 1,O'B
           [syntax |-> "csv", doc |-> << <<<<"i", "d">>, <<"n", "m">>>>,
                                         <<<<"1">>, <<"O", "'", "B">>>> >>]
      [] name = E_CSV ->        \* a file of zero bytes
           [syntax |-> "csv", doc |-> <<>>]
      [] name = B_JSON ->       \* [{"id": 1}, {"id": 2, "nm": null}]
           [syntax |-> "json", doc |-> <<
               [t |-> "object", v |-> <<>>,
                items |-> << [k |-> <<"i", "d">>, v |-> IntVal(<<"1">>)] >>],
               [t |-> "object", v |-> <<>>,
                items |-> << [k |-> <<"i", "d">>, v |-> IntVal(<<"2">>)],
                             [k |-> <<"n", "m">>, v |-> NoneVal] >>] >>]
      [] name = C_XML ->        \* <r><item><id>1</id><nm/></item></r>
           [syntax |-> "xml", doc |->
               [tag |-> <<"r">>, text |-> NoneVal, children |-> <<
                   [tag |-> <<"i", "t", "e", "m">>, text |-> NoneVal, children |-> <<
                       Leaf(<<"i", "d">>, StrVal(<<"1">>)),
                       Leaf(<<"n", "m">>, NoneVal) >>] >>]]
      [] name = D_XLSX ->       \* one sheet: header id, one row 'x'
           [syntax |-> "xlsx", doc |->
               [columns |-> <<StrVal(<<"i", "d">>)>>, rows |-> << <<StrVal(<<"x">>)>> >>]]
      [] name = N_TXT ->
           [syntax |-> "text", doc |-> <<>>]

SourceFiles == {A_CSV, E_CSV, N_TXT}

ExportTypes == {<<".", "d", "b">>, <<".", "s", "q", "l">>}

(***************************************************************************)
(* Initial state: the main window as built by lines 193-251, the source    *)
(* directory holding the selectable files and no migrations folder.        *)
(***************************************************************************)
NoRun == [pc |-> "mainloop", filepath |-> <<>>, file_extension |-> <<>>,
          version_folder |-> <<>>, error |-> "", at |-> ""]

NoHist == [qc_since_load |-> FALSE, published_since_qc |-> 0,
           allocated |-> [e \in ExportTypes |-> <<>>], failed |-> {}]

Init ==
    /\ filepath = <<>>
    /\ file_label = "No file selected"
    /\ qc_button = "disabled"
    /\ migrate_button = "disabled"
    /\ traffic_light = "grey"
    /\ export_type_var = <<".", "d", "b">>
    /\ dirs = {SourceDir}
    /\ files = [p \in {os_path_join(SourceDir, Str(n)) : n \in SourceFiles} |->
                   SourceContent(CHOOSE n \in SourceFiles : os_path_join(SourceDir, Str(n)) = p)]
    /\ run = NoRun
    /\ hist = NoHist
    /\ faults = 0

(***************************************************************************)
(* load_file, qc_check and the export type menu.  Tk runs one callback at  *)
(* a time, and only the command of a button whose state is "normal".       *)
(***************************************************************************)
AtMainloop == run.pc = "mainloop"

\* load_file without line 66: a new selection leaves migrate_button as it is
load_file_keeps_migrate(selection) ==
    /\ AtMainloop
    /\ filepath' = selection
    /\ IF selection # <<>>
       THEN /\ file_label' = Str(selection)
            /\ qc_button' = "normal"
            /\ migrate_button' = migrate_button
       ELSE /\ file_label' = "No file selected"
            /\ qc_button' = "disabled"
            /\ migrate_button' = "disabled"
    /\ hist' = [hist EXCEPT !.qc_since_load = FALSE]
    /\ UNCHANGED <<traffic_light, export_type_var, dirs, files, run, faults>>

\* load_file without line 69: a cancelled dialog leaves qc_button as it is
load_file_cancel_keeps_qc(selection) ==
    /\ AtMainloop
    /\ filepath' = selection
    /\ IF selection # <<>>
       THEN /\ file_label' = Str(selection)
            /\ qc_button' = "normal"
            /\ migrate_button' = "disabled"
       ELSE /\ file_label' = "No file selected"
            /\ qc_button' = qc_button
            /\ migrate_button' = "disabled"
    /\ hist' = [hist EXCEPT !.qc_since_load = FALSE]
    /\ UNCHANGED <<traffic_light, export_type_var, dirs, files, run, faults>>

\* selection is what askopenfilename returns: a file name, or <<>> when cancelled
load_file(selection) ==
    /\ AtMainloop
    /\ filepath' = selection
    /\ IF selection # <<>>
       THEN /\ file_label' = Str(selection)
            /\ qc_button' = "normal"
            /\ migrate_button' = "disabled"
       ELSE /\ file_label' = "No file selected"
            /\ qc_button' = "disabled"
            /\ migrate_button' = "disabled"
    /\ hist' = [hist EXCEPT !.qc_since_load = FALSE]
    /\ UNCHANGED <<traffic_light, export_type_var, dirs, files, run, faults>>

qc_check ==
    /\ AtMainloop
    /\ qc_button = "normal"
    /\ traffic_light' = "green"
    /\ migrate_button' = "normal"
    /\ hist' = [hist EXCEPT !.qc_since_load = TRUE, !.published_since_qc = 0]
    /\ UNCHANGED <<filepath, file_label, qc_button, export_type_var, dirs, files, run, faults>>

select_export_type(ext) ==
    /\ AtMainloop
    /\ ext # export_type_var
    /\ export_type_var' = ext
    /\ UNCHANGED <<filepath, file_label, qc_button, migrate_button, traffic_light,
                   dirs, files, run, hist, faults>>

(***************************************************************************)
(* migrate: the paths it computes from its locals.                         *)
(***************************************************************************)
\* every export type under the folder of .db
type_folder_path_db(file_extension) ==
    os_path_join(os_path_join(SourceDir, "migrations"), "db")

migration_root == os_path_join(SourceDir, "migrations")

type_folder_path(file_extension) == os_path_join(migration_root, Str(Tail(file_extension)))

version_folder_path(r) ==
    os_path_join(type_folder_path(r.file_extension), Str(r.version_folder))

data_folder(r) == os_path_join(version_folder_path(r), "data")
source_folder(r) == os_path_join(version_folder_path(r), "source")
log_folder(r) == os_path_join(version_folder_path(r), "log")

original_path(r) == os_path_join(SourceDir, Str(r.filepath))

source_file_path(r) == os_path_join(source_folder(r), Str(r.filepath))

new_file_path(r) ==
    os_path_join(data_folder(r),
                 Str(splitext(r.filepath)[1]) \o "_migration" \o Str(r.file_extension))

log_file_path(r) == os_path_join(log_folder(r), "migration_log.txt")

\* os.path.normpath on a path without "..": drops "." components
normpath(path) == SelectSeq(path, LAMBDA c : c # ".")

\* the scan without its loop: v001 whatever exists
scan_once(d, f, type_path, version_folder) == version_folder

\* a scan that takes a folder holding no log for free, so as to repair it
RECURSIVE scan_unlogged(_, _, _, _)
scan_unlogged(d, f, type_path, version_folder) ==
    IF os_path_join(os_path_join(os_path_join(type_path, Str(version_folder)), "log"),
                    "migration_log.txt") \in DOMAIN f
    THEN scan_unlogged(d, f, type_path,
                       <<"v">> \o zfill(str(int(Tail(version_folder)) + 1), 3))
    ELSE version_folder

\* a scan that numbers by the count of entries of the type folder
scan_by_count(d, f, type_path, version_folder) ==
    <<"v">> \o zfill(str(Cardinality({p \in d : Len(p) = Len(type_path) + 1
                                                /\ IsUnder(p, type_path)}) + 1), 3)

\* the while loop of lines 90-95
RECURSIVE scan(_, _, _, _)
scan(d, f, type_path, version_folder) ==
    IF os_path_exists(d, f, os_path_join(type_path, Str(version_folder)))
    THEN scan(d, f, type_path, <<"v">> \o zfill(str(int(Tail(version_folder)) + 1), 3))
    ELSE version_folder

VersionFolders == {p \in dirs : Len(p) = 3 /\ p[1] = "migrations"}

(***************************************************************************)
(* migrate, one action per group of lines.  An exception leaves the        *)
(* callback (pc "raised"); Tk reports it and goes on with the main loop.   *)
(***************************************************************************)
Raise(exception) ==
    /\ run' = [run EXCEPT !.pc = "raised", !.error = exception, !.at = run.pc]
    /\ hist' = [hist EXCEPT !.failed = IF run.pc \in {"mkchildren", "copy", "convert", "log"}
                                       THEN @ \cup {version_folder_path(run)} ELSE @]

\* the button is pressed: the lambda of line 250 passes the global filepath
migrate_call ==
    /\ AtMainloop
    /\ migrate_button = "normal"
    /\ Len(hist.allocated[<<".", "d", "b">>]) + Len(hist.allocated[<<".", "s", "q", "l">>])
           < MaxFolders
    /\ run' = [NoRun EXCEPT !.pc = "scan", !.filepath = filepath]
    /\ UNCHANGED <<filepath, file_label, qc_button, migrate_button, traffic_light,
                   export_type_var, dirs, files, hist, faults>>

\* lines 81-95
migrate_scan ==
    /\ run.pc = "scan"
    /\ LET type_path == type_folder_path(export_type_var)
       IN  IF makedirs_raises(files, type_path)
           THEN Raise("FileExistsError") /\ UNCHANGED dirs
           ELSE /\ dirs' = makedirs(dirs, type_path)
                /\ run' = [run EXCEPT !.pc = "mkversion",
                                      !.file_extension = export_type_var,
                                      !.version_folder =
                                          scan(dirs, files, type_path, <<"v", "0", "0", "1">>)]
                /\ UNCHANGED hist
    /\ UNCHANGED <<filepath, file_label, qc_button, migrate_button, traffic_light,
                   export_type_var, files, faults>>

\* line 97
migrate_mkversion ==
    /\ run.pc = "mkversion"
    /\ IF makedirs_raises(files, version_folder_path(run))
       THEN Raise("FileExistsError") /\ UNCHANGED dirs
       ELSE /\ dirs' = makedirs(dirs, version_folder_path(run))
            /\ run' = [run EXCEPT !.pc = "mkchildren"]
            /\ hist' = [hist EXCEPT !.allocated[run.file_extension] =
                                        Append(@, run.version_folder)]
    /\ UNCHANGED <<filepath, file_label, qc_button, migrate_button, traffic_light,
                   export_type_var, files, faults>>

\* lines 99-104 without line 104: the log folder is not made
migrate_mkchildren_no_log ==
    /\ run.pc = "mkchildren"
    /\ IF \E p \in {data_folder(run), source_folder(run)} : makedirs_raises(files, p)
       THEN Raise("FileExistsError") /\ UNCHANGED dirs
       ELSE /\ dirs' = makedirs(makedirs(dirs, data_folder(run)), source_folder(run))
            /\ run' = [run EXCEPT !.pc = "copy"]
            /\ UNCHANGED hist
    /\ UNCHANGED <<filepath, file_label, qc_button, migrate_button, traffic_light,
                   export_type_var, files, faults>>

\* lines 99-104
migrate_mkchildren ==
    /\ run.pc = "mkchildren"
    /\ IF \E p \in {data_folder(run), source_folder(run), log_folder(run)} :
              makedirs_raises(files, p)
       THEN Raise("FileExistsError") /\ UNCHANGED dirs
       ELSE /\ dirs' = makedirs(makedirs(makedirs(dirs, data_folder(run)),
                                         source_folder(run)), log_folder(run))
            /\ run' = [run EXCEPT !.pc = "copy"]
            /\ UNCHANGED hist
    /\ UNCHANGED <<filepath, file_label, qc_button, migrate_button, traffic_light,
                   export_type_var, files, faults>>

\* lines 107-112
migrate_copy ==
    /\ run.pc = "copy"
    /\ IF original_path(run) \notin DOMAIN files \/ source_folder(run) \notin dirs
       THEN Raise("FileNotFoundError") /\ UNCHANGED files
       ELSE /\ files' = shutil_copy(files, original_path(run), source_file_path(run))
            /\ run' = [run EXCEPT !.pc = "convert"]
            /\ UNCHANGED hist
    /\ UNCHANGED <<filepath, file_label, qc_button, migrate_button, traffic_light,
                   export_type_var, dirs, faults>>

\* the if/elif chain of lines 119-126; no branch is taken for another extension
convert(f, r) ==
    LET name == lower(r.filepath)
    IN  CASE endswith(name, <<".", "c", "s", "v">>) ->
               migrate_csv(f, original_path(r), new_file_path(r))
          [] endswith(name, <<".", "x", "l", "s", "x">>) ->
               migrate_excel(f, original_path(r), new_file_path(r))
          [] endswith(name, <<".", "j", "s", "o", "n">>) ->
               migrate_json(f, original_path(r), new_file_path(r))
          [] endswith(name, <<".", "x", "m", "l">>) ->
               migrate_xml(f, original_path(r), new_file_path(r))
          [] OTHER -> [files |-> f, error |-> ""]

\* the dispatch inside try/except: the exception is noted and migrate goes on
migrate_convert_swallow ==
    /\ run.pc = "convert"
    /\ LET res == convert(files, run)
       IN  /\ files' = res.files
           /\ run' = [run EXCEPT !.pc = "log", !.error = res.error,
                                 !.at = IF res.error # "" THEN "convert" ELSE ""]
    /\ UNCHANGED <<filepath, file_label, qc_button, migrate_button, traffic_light,
                   export_type_var, dirs, hist, faults>>

\* lines 115-126
migrate_convert ==
    /\ run.pc = "convert"
    /\ LET res == convert(files, run)
       IN  /\ files' = res.files
           /\ IF res.error # ""
              THEN Raise(res.error)
              ELSE run' = [run EXCEPT !.pc = "log"] /\ UNCHANGED hist
    /\ UNCHANGED <<filepath, file_label, qc_button, migrate_button, traffic_light,
                   export_type_var, dirs, faults>>

Log(r) == [syntax |-> "log",
           doc |-> <<normpath(original_path(r)), normpath(source_file_path(r)),
                     normpath(new_file_path(r))>>]

\* lines 129-138
migrate_log ==
    /\ run.pc = "log"
    /\ IF log_folder(run) \notin dirs
       THEN Raise("FileNotFoundError") /\ UNCHANGED files
       ELSE /\ files' = write_file(files, log_file_path(run), Log(run))
            /\ run' = [run EXCEPT !.pc = "publish"]
            /\ UNCHANGED hist
    /\ UNCHANGED <<filepath, file_label, qc_button, migrate_button, traffic_light,
                   export_type_var, dirs, faults>>

\* migrate without line 142: the button stays enabled after publishing
migrate_publish_keeps_enabled ==
    /\ run.pc = "publish"
    /\ file_label' = "File Published"
    /\ migrate_button' = migrate_button
    /\ run' = [run EXCEPT !.pc = "returned"]
    /\ hist' = [hist EXCEPT !.published_since_qc = @ + 1]
    /\ UNCHANGED <<filepath, qc_button, traffic_light, export_type_var, dirs, files, faults>>

\* lines 141-142
migrate_publish ==
    /\ run.pc = "publish"
    /\ file_label' = "File Published"
    /\ migrate_button' = "disabled"
    /\ run' = [run EXCEPT !.pc = "returned"]
    /\ hist' = [hist EXCEPT !.published_since_qc = @ + 1]
    /\ UNCHANGED <<filepath, qc_button, traffic_light, export_type_var, dirs, files, faults>>

\* an OS call of the next group of lines raises OSError (disk full, permissions)
migrate_oserror ==
    /\ run.pc \in {"scan", "mkversion", "mkchildren", "copy", "convert", "log"}
    /\ faults < MaxFaults
    /\ faults' = faults + 1
    /\ Raise("OSError")
    /\ UNCHANGED <<filepath, file_label, qc_button, migrate_button, traffic_light,
                   export_type_var, dirs, files>>

\* the callback is over: Tk is back in window.mainloop() (line 254)
mainloop ==
    /\ run.pc \in {"returned", "raised"}
    /\ run' = NoRun
    /\ UNCHANGED <<filepath, file_label, qc_button, migrate_button, traffic_light,
                   export_type_var, dirs, files, hist, faults>>

Next ==
    \/ \E selection \in SourceFiles \cup {<<>>} : load_file(selection)
    \/ qc_check
    \/ \E ext \in ExportTypes : select_export_type(ext)
    \/ migrate_call
    \/ migrate_scan
    \/ migrate_mkversion
    \/ migrate_mkchildren
    \/ migrate_copy
    \/ migrate_convert
    \/ migrate_log
    \/ migrate_publish
    \/ migrate_oserror
    \/ mainloop

Spec == Init /\ [][Next]_vars

(***************************************************************************)
(* The tool started in a directory where earlier sessions left version     *)
(* folders and the operator deleted some of them: any set of folders       *)
(* v001..v<MaxExisting> exists under each type tag.  A file is loaded and  *)
(* has passed QC.                                                          *)
(***************************************************************************)
LeftFolders(ext, versions) ==
    UNION {Prefixes(os_path_join(type_folder_path(ext), Str(<<"v">> \o zfill(str(n), 3)))) :
              n \in versions}

AllocInit ==
    /\ filepath \in SourceFiles
    /\ file_label = Str(filepath)
    /\ qc_button = "normal"
    /\ migrate_button = "normal"
    /\ traffic_light = "green"
    /\ export_type_var = <<".", "d", "b">>
    /\ \E db \in SUBSET (1..MaxExisting), sql \in SUBSET (1..MaxExisting) :
           dirs = {SourceDir} \cup LeftFolders(<<".", "d", "b">>, db)
                              \cup LeftFolders(<<".", "s", "q", "l">>, sql)
    /\ files = [p \in {os_path_join(SourceDir, Str(n)) : n \in SourceFiles} |->
                   SourceContent(CHOOSE n \in SourceFiles : os_path_join(SourceDir, Str(n)) = p)]
    /\ run = NoRun
    /\ hist = [NoHist EXCEPT !.qc_since_load = TRUE]
    /\ faults = 0

AllocNext ==
    \/ qc_check
    \/ \E ext \in ExportTypes : select_export_type(ext)
    \/ migrate_call
    \/ migrate_scan
    \/ migrate_mkversion
    \/ migrate_mkchildren
    \/ migrate_copy
    \/ migrate_convert
    \/ migrate_log
    \/ migrate_publish
    \/ mainloop

AllocSpec == AllocInit /\ [][AllocNext]_vars

(***************************************************************************)
(* The converters on their own: migrate has selected v001, made its        *)
(* folders and copied the file (lines 81-112), and the file holds any      *)
(* document of a bounded set.                                              *)
(***************************************************************************)
BSeq(S, n) == UNION {[1..k -> S] : k \in 0..n}

AtConvert(name, content) ==
    \E ext \in ExportTypes :
        LET r == [NoRun EXCEPT !.pc = "convert", !.filepath = name, !.file_extension = ext,
                               !.version_folder = <<"v", "0", "0", "1">>]
        IN  /\ filepath = name
            /\ file_label = Str(name)
            /\ qc_button = "normal"
            /\ migrate_button = "normal"
            /\ traffic_light = "green"
            /\ export_type_var = ext
            /\ dirs = makedirs(makedirs(makedirs({SourceDir}, data_folder(r)),
                                        source_folder(r)), log_folder(r))
            /\ files = [p \in {original_path(r), source_file_path(r)} |-> content]
            /\ run = r
            /\ hist = [NoHist EXCEPT !.qc_since_load = TRUE,
                                     !.allocated[ext] = <<r.version_folder>>]
            /\ faults = 0

\* what csv.reader yields for a text with a first row: rows of str cells, a
\* blank line as a row of no cells
CsvCells == {<<"a">>, <<"1">>}

CsvDocs == {<<header>> \o rows : header \in BSeq(CsvCells, MaxCols) \ {<<>>},
                                 rows \in BSeq(BSeq(CsvCells, MaxCols), MaxRows)}

CsvInit == \E doc \in CsvDocs : AtConvert(A_CSV, [syntax |-> "csv", doc |-> doc])

CsvSpec == CsvInit /\ [][migrate_convert]_vars

\* what json.load yields for a list of objects: each object its (key, value)
\* pairs in the order of the text, no key twice
JsonKeys == {<<"i", "d">>, <<"n", "m">>}

JsonValues == {IntVal(<<"1">>), StrVal(<<"x">>), NoneVal}

JsonObjects ==
    {[t |-> "object", v |-> <<>>, items |-> items] :
        items \in {s \in BSeq([k : JsonKeys, v : JsonValues], Cardinality(JsonKeys)) :
                      \A i, j \in 1..Len(s) : s[i].k = s[j].k => i = j}}

JsonInit ==
    \E doc \in BSeq(JsonObjects, MaxEntries) : AtConvert(B_JSON, [syntax |-> "json", doc |-> doc])

JsonSpec == JsonInit /\ [][migrate_convert]_vars

\* what ET.parse yields: a root over any forest of up to MaxNodes elements,
\* each tagged item or id, with a text or none
XmlTags == {<<"i", "t", "e", "m">>, <<"i", "d">>}

XmlTexts == {StrVal(<<"1">>), NoneVal}

RECURSIVE Forests(_)
Forests(n) ==
    IF n = 0 THEN {<<>>}
    ELSE UNION {{<<[tag |-> t, text |-> x, children |-> c]>> \o rest :
                    t \in XmlTags, x \in XmlTexts, c \in Forests(k), rest \in Forests(n - 1 - k)} :
                k \in 0..(n - 1)}

XmlDocs ==
    {[tag |-> t, text |-> NoneVal, children |-> c] :
        t \in {<<"r">>, <<"i", "t", "e", "m">>}, c \in UNION {Forests(n) : n \in 0..MaxNodes}}

XmlInit == \E doc \in XmlDocs : AtConvert(C_XML, [syntax |-> "xml", doc |-> doc])

XmlSpec == XmlInit /\ [][migrate_convert]_vars

(***************************************************************************)
(* The loop of lines 90-95 one iteration at a time, started where the      *)
(* folders left are any of v001..v<MaxExisting> or an unbroken run         *)
(* v001..v<K> that ends around v999.                                       *)
(***************************************************************************)
ScanInit ==
    /\ filepath = A_CSV
    /\ file_label = Str(filepath)
    /\ qc_button = "normal"
    /\ migrate_button = "normal"
    /\ traffic_light = "green"
    /\ export_type_var \in ExportTypes
    /\ \E left \in SUBSET (1..MaxExisting)
                     \cup {1..K : K \in ScanFrom..(ScanFrom + MaxExisting)} :
           dirs = {SourceDir} \cup LeftFolders(export_type_var, left)
    /\ files = [p \in {os_path_join(SourceDir, Str(filepath))} |-> SourceContent(filepath)]
    /\ run = NoRun
    /\ hist = [NoHist EXCEPT !.qc_since_load = TRUE]
    /\ faults = 0

\* lines 81-90
migrate_makeroots ==
    /\ run.pc = "scan"
    /\ LET type_path == type_folder_path(export_type_var)
       IN  IF makedirs_raises(files, type_path)
           THEN Raise("FileExistsError") /\ UNCHANGED dirs
           ELSE /\ dirs' = makedirs(dirs, type_path)
                /\ run' = [run EXCEPT !.pc = "while",
                                      !.file_extension = export_type_var,
                                      !.version_folder = <<"v", "0", "0", "1">>]
                /\ UNCHANGED hist
    /\ UNCHANGED <<filepath, file_label, qc_button, migrate_button, traffic_light,
                   export_type_var, files, faults>>

\* line 91 true, lines 92-95
migrate_while_body ==
    /\ run.pc = "while"
    /\ os_path_exists(dirs, files, version_folder_path(run))
    /\ run' = [run EXCEPT !.version_folder =
                              <<"v">> \o zfill(str(int(Tail(run.version_folder)) + 1), 3)]
    /\ UNCHANGED <<filepath, file_label, qc_button, migrate_button, traffic_light,
                   export_type_var, dirs, files, hist, faults>>

\* line 91 false
migrate_while_exit ==
    /\ run.pc = "while"
    /\ ~os_path_exists(dirs, files, version_folder_path(run))
    /\ run' = [run EXCEPT !.pc = "mkversion"]
    /\ UNCHANGED <<filepath, file_label, qc_button, migrate_button, traffic_light,
                   export_type_var, dirs, files, hist, faults>>

ScanNext ==
    \/ migrate_call
    \/ migrate_makeroots
    \/ migrate_while_body
    \/ migrate_while_exit

\* the interpreter goes on with the statement it is at
ScanSpec ==
    ScanInit /\ [][ScanNext]_vars /\ WF_vars(migrate_while_body) /\ WF_vars(migrate_while_exit)

(***************************************************************************)
(* The claims.                                                             *)
(***************************************************************************)
InVersionFolder(p) == Len(p) > 3 /\ p[1] = "migrations"

FileChanged(p) == p \notin DOMAIN files \/ p \notin DOMAIN files' \/ files[p] # files'[p]

Selected(r) == r.version_folder # <<>>

\* C1: the version folder a run selects does not exist when the scan selects it,
\* and a step of migrate creates, overwrites or deletes a file inside a version
\* folder only if that folder is the one the running call selected; so no run
\* touches a file in the folder of an earlier run.
C1_FreshVersionFolder ==
    [][ /\ (run.pc = "scan" /\ run'.pc = "mkversion")
            => ~os_path_exists(dirs, files, version_folder_path(run'))
        /\ files' # files
               => \A p \in DOMAIN files \cup DOMAIN files' :
                      (InVersionFolder(p) /\ FileChanged(p))
                          => /\ run.pc \in {"copy", "convert", "log"}
                             /\ IsUnder(p, version_folder_path(run)) ]_vars

\* a second run under one type tag has published, v001 being there already
C1_Witness ==
    /\ run.pc = "returned"
    /\ run.version_folder = <<"v", "0", "0", "2">>
    /\ os_path_join(type_folder_path(run.file_extension), "v001") \in dirs

\* C2: whenever migrate_button is enabled a file is loaded (filepath is not
\* empty) and qc_check has run since the latest load_file; as every load_file
\* ends the "QC since load" period, every load_file leaves the button disabled.
C2_MigrateNeedsQc ==
    migrate_button = "normal" => (filepath # <<>> /\ hist.qc_since_load)

\* migrate is enabled again, by a QC after a load, once a run has been made
C2_Witness ==
    /\ AtMainloop
    /\ migrate_button = "normal"
    /\ hist.qc_since_load
    /\ VersionFolders # {}

\* C3: when migrate has set the label to "File Published", the run's version
\* folder holds source/<name>, data/<stem>_migration<ext> and
\* log/migration_log.txt, and the log's Migrated File path names a file.
C3_PublishedHasArtifacts ==
    (run.pc = "returned" /\ file_label = "File Published")
        => /\ source_file_path(run) \in DOMAIN files
           /\ new_file_path(run) \in DOMAIN files
           /\ log_file_path(run) \in DOMAIN files
           /\ files[log_file_path(run)].doc[3] \in DOMAIN files

Supported(name) ==
    \E ext \in {<<".", "c", "s", "v">>, <<".", "x", "l", "s", "x">>,
                <<".", "j", "s", "o", "n">>, <<".", "x", "m", "l">>} :
        endswith(lower(name), ext)

\* C4: a run of migrate on a file whose extension is none of .csv, .xlsx, .json,
\* .xml fails: it never goes on to write the log and never publishes.
C4_UnsupportedFails ==
    (run.pc # "mainloop" /\ ~Supported(run.filepath))
        => run.pc \notin {"publish", "returned"}

EmptyCsvRun ==
    /\ run.pc # "mainloop"
    /\ endswith(lower(run.filepath), <<".", "c", "s", "v">>)
    /\ files[original_path(run)].doc = <<>>

\* C5: a run of migrate on a .csv file of zero rows fails, and when it has failed
\* in the conversion its version folder exists and holds no file under data/.
C5_EmptyCsvNoOutput ==
    EmptyCsvRun
        => /\ run.pc \notin {"log", "publish", "returned"}
           /\ (run.pc = "raised" /\ run.at = "convert")
                  => /\ version_folder_path(run) \in dirs
                     /\ \A p \in DOMAIN files : ~IsUnder(p, data_folder(run))

Tree(d, F) == {p \in d : p = F \/ IsUnder(p, F)}

\* C6: a version folder left by a failed run stays as it is (its directories and
\* files are neither removed nor changed, and nothing is added), the migrate
\* button is still enabled when a run has failed, and a later run selects a
\* folder that is none of the failed runs' folders.
C6_FailedFolderKept ==
    [][ /\ run'.pc = "raised" => migrate_button' = "normal"
        /\ (dirs' # dirs \/ files' # files)
               => \A F \in hist.failed :
                      /\ Tree(dirs', F) = Tree(dirs, F)
                      /\ Tree(DOMAIN files', F) = Tree(DOMAIN files, F)
                      /\ \A p \in Tree(DOMAIN files, F) : files'[p] = files[p]
        /\ (Selected(run') /\ run'.pc # "raised")
               => version_folder_path(run') \notin hist.failed ]_vars

\* a retry of the same file under the same type tag has published after a run
\* that failed once its source copy was made
C6_Witness ==
    /\ run.pc = "returned"
    /\ \E F \in hist.failed :
           /\ F[2] = Str(Tail(run.file_extension))
           /\ os_path_join(os_path_join(F, "source"), Str(run.filepath)) \in DOMAIN files

\* C7: once a run has published, migrate_button is disabled and stays so until
\* the next qc_check; hence at most one run publishes between two qc_checks.
C7_OnePublishPerQc ==
    hist.published_since_qc # 0
        => (migrate_button = "disabled" /\ hist.published_since_qc = 1)

\* a file was loaded after a run published, and no QC was made since
C7_Witness ==
    /\ AtMainloop
    /\ hist.published_since_qc = 1
    /\ ~hist.qc_since_load
    /\ filepath # <<>>

\* C8: once a step of migrate has raised, the call is over: no later step runs,
\* the label and the button are left as they were (the run does not publish),
\* and after a failure before the log step the run's folder holds no
\* migration_log.txt.
C8_FailureAborts ==
    [][ run'.error # ""
            => /\ run'.pc = "raised"
               /\ file_label' = file_label
               /\ migrate_button' = migrate_button
               /\ (Selected(run') /\ run'.at # "log")
                      => log_file_path(run') \notin DOMAIN files' ]_vars

\* the conversion has raised after the folder was made and the source copied
C8_Witness ==
    /\ run.pc = "raised"
    /\ run.at = "convert"
    /\ run.error = "IndexError"
    /\ source_file_path(run) \in DOMAIN files

Copied(r) ==
    \/ r.pc \in {"convert", "log", "publish", "returned"}
    \/ r.pc = "raised" /\ r.at \in {"convert", "log"}

\* C9: every file of the source directory is there with the content it had
\* before any run, and once a run is past its copy step, source/<name> in its
\* version folder holds the content of the original.
C9_SourceUntouched ==
    /\ \A n \in SourceFiles :
           /\ os_path_join(SourceDir, Str(n)) \in DOMAIN files
           /\ files[os_path_join(SourceDir, Str(n))] = SourceContent(n)
    /\ Copied(run)
           => /\ source_file_path(run) \in DOMAIN files
              /\ files[source_file_path(run)] = files[original_path(run)]

\* a run on a.csv has published
C9_Witness ==
    /\ run.pc = "returned"
    /\ run.filepath = A_CSV
    /\ source_file_path(run) \in DOMAIN files
    /\ new_file_path(run) \in DOMAIN files

\* C10: under each type tag the k-th version folder created is v00k (k < 10):
\* v001, v002, v003, ..., strictly increasing, none allocated twice.
C10_VersionsCountUp ==
    \A e \in ExportTypes :
        \A k \in 1..Len(hist.allocated[e]) :
            k < 10 => hist.allocated[e][k] = <<"v", "0", "0", DigitChars[k + 1]>>

\* three folders were created under one type tag
C10_Witness ==
    \E e \in ExportTypes :
        /\ Len(hist.allocated[e]) = 3
        /\ os_path_join(type_folder_path(e), "v003") \in dirs

\* C13: whenever a step of migrate writes a file, the run's version folder and
\* its data, source and log directories exist already; the source copy is the
\* first file in the folder, the converted output is written after the source
\* copy and before the log, and the log after the source copy.
C13_DirsBeforeWrites ==
    [][ files' # files
            => /\ Selected(run)
               /\ {version_folder_path(run), data_folder(run), source_folder(run),
                   log_folder(run)} \subseteq dirs
               /\ \A p \in DOMAIN files' :
                      (InVersionFolder(p) /\ FileChanged(p))
                          => \/ /\ p = source_file_path(run)
                                /\ Tree(DOMAIN files, version_folder_path(run)) = {}
                             \/ /\ p = new_file_path(run)
                                /\ source_file_path(run) \in DOMAIN files
                                /\ log_file_path(run) \notin DOMAIN files
                             \/ /\ p = log_file_path(run)
                                /\ source_file_path(run) \in DOMAIN files ]_vars

\* a run has written its three files and is about to publish
C13_Witness ==
    /\ run.pc = "publish"
    /\ {source_file_path(run), new_file_path(run), log_file_path(run)} \subseteq DOMAIN files

\* C14: whenever no file is loaded (filepath is empty, as after a cancelled
\* dialog), qc_button and migrate_button are disabled, and neither qc_check nor
\* migrate can start.
C14_CancelResets ==
    filepath = <<>>
        => /\ qc_button = "disabled"
           /\ migrate_button = "disabled"
           /\ ~ENABLED qc_check
           /\ ~ENABLED migrate_call

\* the dialog was cancelled after a file had been loaded, checked and migrated
C14_Witness ==
    /\ AtMainloop
    /\ filepath = <<>>
    /\ file_label = "No file selected"
    /\ traffic_light = "green"
    /\ VersionFolders # {}

\* v{n:03d} for n < 1000
VName(n) == <<"v", DigitChars[(n \div 100) + 1], DigitChars[((n \div 10) % 10) + 1],
              DigitChars[(n % 10) + 1]>>

OwnTag == IF export_type_var = <<".", "d", "b">> THEN "db" ELSE "sql"

VPath(tag, n) == <<"migrations", tag, Str(VName(n))>>

\* C15: the version folder a run selects is v{n:03d} for the smallest n >= 1
\* whose folder does not exist under the run's type tag; with v001 and v003
\* there and v002 deleted it is v002.
C15_SmallestFree ==
    run.pc = "mkversion"
        => \E n \in 1..(MaxExisting + MaxFolders + 1) :
               /\ run.version_folder = VName(n)
               /\ VPath(OwnTag, n) \notin dirs
               /\ \A m \in 1..(n - 1) : VPath(OwnTag, m) \in dirs

\* v001 and v003 were there without v002, and the run has made v002
C15_Witness ==
    /\ run.pc = "mkchildren"
    /\ run.version_folder = <<"v", "0", "0", "2">>
    /\ {VPath(OwnTag, 1), VPath(OwnTag, 2), VPath(OwnTag, 3)} \subseteq dirs
    /\ hist.allocated[export_type_var] = <<run.version_folder>>

OtherTag == IF OwnTag = "db" THEN "sql" ELSE "db"

\* C18: a step of migrate makes directories and writes files only under
\* migrations/<own tag> (besides migrations itself) and removes nothing, and
\* the version it selects is the one it would select were there nothing under
\* the other type tag.
C18_TagsIndependent ==
    [][ /\ dirs \subseteq dirs'
        /\ DOMAIN files \subseteq DOMAIN files'
        /\ \A p \in (dirs' \ dirs) \cup {q \in DOMAIN files' : FileChanged(q)} :
               p = <<"migrations">> \/ (Len(p) >= 2 /\ p[1] = "migrations" /\ p[2] = OwnTag)
        /\ (run.pc = "scan" /\ run'.pc = "mkversion")
               => /\ run'.version_folder =
                         scan({p \in dirs : ~(Len(p) >= 2 /\ p[2] = OtherTag)}, files,
                              <<"migrations", OwnTag>>, <<"v", "0", "0", "1">>)
                  /\ version_folder_path(run') = VPath(OwnTag, int(Tail(run'.version_folder)))
      ]_vars

\* a run under sql has published while db holds folders that sql does not
C18_Witness ==
    /\ run.pc = "returned"
    /\ OwnTag = "sql"
    /\ run.version_folder = <<"v", "0", "0", "1">>
    /\ {VPath("db", 1), VPath("db", 2)} \subseteq dirs
    /\ Tree(DOMAIN files, <<"migrations", "db">>) = {}

\* C17: once the scan loop is entered it ends, whatever folders exist, also
\* where v001..v999 and more are there; it ends at a folder that does not
\* exist.
C17_ScanTerminates ==
    (run.pc = "while")
        ~> (run.pc = "mkversion" /\ ~os_path_exists(dirs, files, version_folder_path(run)))

\* v001..v999 were there and the loop has ended at v1000
C17_Witness ==
    /\ run.pc = "mkversion"
    /\ run.version_folder = <<"v", "1", "0", "0", "0">>
    /\ <<"migrations", OwnTag, "v999">> \in dirs
    /\ <<"migrations", OwnTag, "v1000">> \notin dirs

Converted == run.pc = "log"

Input == files[original_path(run)].doc

Written == files[new_file_path(run)].doc

\* C11: for a delimited text with a header row and N data rows the output has
\* N lines, line i made from data row i, each with the header as its column
\* list and as many values as the header has columns.
C11_CsvRowsMatchHeader ==
    (Converted /\ endswith(run.filepath, <<".", "c", "s", "v">>))
        => /\ Len(Written) = Len(Input) - 1
           /\ \A i \in 1..Len(Written) :
                  /\ Written[i].columns = Input[1]
                  /\ Len(Written[i].values) = Len(Input[1])
                  /\ \A j \in 1..Len(Input[i + 1]) :
                         j <= Len(Written[i].values)
                             => Written[i].values[j] = repr(StrVal(Input[i + 1][j]))

KeySet(entry) == {entry.items[j].k : j \in 1..Len(entry.items)}

ColumnSet(statement) == {statement.columns[j] : j \in 1..Len(statement.columns)}

\* C12: for a JSON list of objects the output has one statement per object, in
\* order; statement i has the keys of object i, in the object's order, as its
\* columns and the object's values in the same positions, so no key is dropped
\* and none comes from another object, and objects with different key sets
\* give different column lists.
C12_JsonOwnKeys ==
    (Converted /\ endswith(run.filepath, <<".", "j", "s", "o", "n">>))
        => /\ Len(Written) = Len(Input)
           /\ \A i \in 1..Len(Input) :
                  /\ Len(Written[i].columns) = Len(Input[i].items)
                  /\ Len(Written[i].values) = Len(Input[i].items)
                  /\ \A j \in 1..Len(Input[i].items) :
                         /\ Written[i].columns[j] = Input[i].items[j].k
                         /\ Written[i].values[j] = repr(Input[i].items[j].v)
                  /\ ColumnSet(Written[i]) = KeySet(Input[i])
           /\ \A i, j \in 1..Len(Input) :
                  KeySet(Input[i]) # KeySet(Input[j]) => Written[i].columns # Written[j].columns

\* two objects, the second with a key the first has not, are converted
C12_Witness ==
    /\ Converted
    /\ endswith(run.filepath, <<".", "j", "s", "o", "n">>)
    /\ Len(Input) = 2
    /\ KeySet(Input[1]) = {<<"i", "d">>}
    /\ KeySet(Input[2]) = {<<"i", "d">>, <<"n", "m">>}
    /\ Written[1].columns = << <<"i", "d">> >>
    /\ Written[2].columns = << <<"n", "m">>, <<"i", "d">> >>

\* the places of the elements of a tree: the child indices on the way down
RECURSIVE Paths(_)
Paths(element) ==
    {<<>>} \cup UNION {{<<i>> \o p : p \in Paths(element.children[i])} :
                          i \in 1..Len(element.children)}

RECURSIVE At(_, _)
At(element, p) == IF p = <<>> THEN element ELSE At(element.children[Head(p)], Tail(p))

\* p comes before q in the document: p is above q, or p branches off to the left
Before(p, q) ==
    \E k \in 0..Len(p) :
        /\ k <= Len(q)
        /\ SubSeq(p, 1, k) = SubSeq(q, 1, k)
        /\ \/ k = Len(p) /\ Len(q) > k
           \/ k < Len(p) /\ k < Len(q) /\ p[k + 1] < q[k + 1]

Rank(S, p) == Cardinality({q \in S : Before(q, p)}) + 1

Below(element) == Paths(element) \ {<<>>}

ItemsBelow(element) == {p \in Below(element) : At(element, p).tag = <<"i", "t", "e", "m">>}

\* C16: for an XML tree the output has one statement for every element tagged
\* item below the root, nested ones included; its columns are the tags of all
\* elements below that item in document order and its values their texts in the
\* same positions, None where an element has no text, so both lists are as long
\* as the item has elements below it.
C16_XmlItems ==
    (Converted /\ endswith(run.filepath, <<".", "x", "m", "l">>))
        => /\ Len(Written) = Cardinality(ItemsBelow(Input))
           /\ \A p \in ItemsBelow(Input) :
                  LET item == At(Input, p)
                      statement == Written[Rank(ItemsBelow(Input), p)]
                  IN  /\ Len(statement.columns) = Cardinality(Below(item))
                      /\ Len(statement.values) = Cardinality(Below(item))
                      /\ \A q \in Below(item) :
                             /\ statement.columns[Rank(Below(item), q)] = At(item, q).tag
                             /\ statement.values[Rank(Below(item), q)] =
                                    IF At(item, q).text = NoneVal
                                    THEN <<"N", "o", "n", "e">>
                                    ELSE <<"'">> \o At(item, q).text.v \o <<"'">>

\* <r><item><item><id>1</id></item></item></r> is converted
C16_Witness ==
    /\ Converted
    /\ endswith(run.filepath, <<".", "x", "m", "l">>)
    /\ ItemsBelow(Input) = {<<1>>, <<1, 1>>}
    /\ Len(Written) = 2
    /\ Written[1].columns = << <<"i", "t", "e", "m">>, <<"i", "d">> >>
    /\ Written[1].values = << <<"N", "o", "n", "e">>, <<"'", "1", "'">> >>
    /\ Written[2].columns = << <<"i", "d">> >>

====
